---- MODULE Spec2Model ----
(***************************************************************************)
(* A model of main.py, the "GPT Actions API" FastAPI service: the logging  *)
(* middleware, the message handler, the document store, the base64         *)
(* ingestion endpoint, the combined endpoints and the health check with    *)
(* its claims decoder.                                                     *)
(*                                                                         *)
(* Text (str) is a sequence of character codes and a byte string is a      *)
(* sequence of numbers in 0..255, so that strip(), the f-strings and the   *)
(* base64, UTF-8 and JSON conversions are computed character by character. *)
(* Fixed literals that the code never takes apart (exception texts, URLs,  *)
(* file names) are TLA+ strings.                                           *)
(*                                                                         *)
(* A computation of several statements is written as a chain of operators, *)
(* each taking the values computed so far as parameters, in the order of   *)
(* the statements.                                                         *)
(***************************************************************************)
EXTENDS Integers, Sequences, FiniteSets, TLC

VARIABLES
    disk,     \* the upload directory: file name -> [exists, data]
    pc,       \* request -> position in LoggingMiddleware.dispatch
    req,      \* request -> the request as received
    resp,     \* request -> what call_next produced for it
    log,      \* the records emitted through logger, in order
    history   \* the accesses of the endpoints to the upload directory, in order

vars == <<disk, pc, req, resp, log, history>>

(***************************************************************************)
(* Bounds of the model.                                                    *)
(***************************************************************************)
NumRequests == 2     \* requests in flight together
MaxMsgLen == 2       \* longest message tried
MaxDataLen == 4      \* longest arbitrary fileData string tried
MaxBytes == 2        \* longest byte string a client encodes
MaxClaims == 2       \* most claims in a principal

(***************************************************************************)
(* Text helpers.                                                           *)
(***************************************************************************)
RECURSIVE SeqsUpTo(_, _)
SeqsUpTo(S, n) ==
    IF n = 0 THEN {<<>>}
    ELSE LET shorter == SeqsUpTo(S, n - 1)
         IN  shorter \cup {Append(s, c) : s \in {t \in shorter : Len(t) = n - 1}, c \in S}

\* str.isspace() of one character, for the code points below 256.
IsSpace(c) == c \in {9, 10, 11, 12, 13, 28, 29, 30, 31, 32, 133, 160}

\* strip(" "), which takes off blanks only: what Strip must not be.
StripBlanks(s) ==
    LET keep == {i \in 1..Len(s) : s[i] # 32}
    IN  IF keep = {} THEN <<>>
        ELSE SubSeq(s, CHOOSE i \in keep : \A j \in keep : i <= j,
                       CHOOSE i \in keep : \A j \in keep : i >= j)

\* str.strip(): the text between the first and the last character that is
\* no white space, and the empty text when there is none.
Strip(s) ==
    LET keep == {i \in 1..Len(s) : ~IsSpace(s[i])}
    IN  IF keep = {} THEN <<>>
        ELSE SubSeq(s, CHOOSE i \in keep : \A j \in keep : i <= j,
                       CHOOSE i \in keep : \A j \in keep : i >= j)

EchoPrefix == <<69, 99, 104, 111, 32, 116, 111, 32>>      \* "Echo to "
EchoSep == <<58, 32>>                                      \* ": "
Uploaded == <<117, 112, 108, 111, 97, 100, 101, 100>>      \* "uploaded"

(***************************************************************************)
(* base64 (the standard library's base64.b64encode / base64.b64decode).    *)
(***************************************************************************)
\* The base64 alphabet: value -> character.
B64Char(v) ==
    IF v < 26 THEN 65 + v
    ELSE IF v < 52 THEN 71 + v
    ELSE IF v < 62 THEN v - 4
    ELSE IF v = 62 THEN 43 ELSE 47

\* character -> value, 64 for a character outside the alphabet.
B64Val(c) ==
    IF c \in 65..90 THEN c - 65
    ELSE IF c \in 97..122 THEN c - 71
    ELSE IF c \in 48..57 THEN c + 4
    ELSE IF c = 43 THEN 62
    ELSE IF c = 47 THEN 63
    ELSE 64

\* Character k of base64.b64encode(b), b being n bytes long: group by group
\* of three bytes, the last group padded with '='.
B64EncodedChar(b, n, k, g, p) ==
    IF p = 0 THEN B64Char(b[g + 1] \div 4)
    ELSE IF p = 1
    THEN B64Char((b[g + 1] % 4) * 16 + (IF g + 2 > n THEN 0 ELSE b[g + 2] \div 16))
    ELSE IF p = 2
    THEN IF g + 2 > n THEN 61
         ELSE B64Char((b[g + 2] % 16) * 4 + (IF g + 3 > n THEN 0 ELSE b[g + 3] \div 64))
    ELSE IF g + 3 > n THEN 61 ELSE B64Char(b[g + 3] % 64)

b64encode(b) ==
    [k \in 1..(4 * ((Len(b) + 2) \div 3)) |->
        B64EncodedChar(b, Len(b), k, 3 * ((k - 1) \div 4), (k - 1) % 4)]

(***************************************************************************)
(* binascii.a2b_base64 in its default, non-strict mode.  The decoder reads *)
(* s from left to right: a character outside the alphabet is discarded; a  *)
(* data character resets the count of pads; an '=' counts as a pad when at *)
(* least two characters of the current group of four were read, and the    *)
(* pad that completes the group ends the decoding, whatever follows it.    *)
(***************************************************************************)
B64IsData(c) == c # 61 /\ B64Val(c) < 64

\* quad_pos when the character at i is read.
A2bQuadPos(s, i) == Cardinality({j \in 1..(i - 1) : B64IsData(s[j])}) % 4

\* The pads read since the last data character before i.
A2bPads(s, i) ==
    Cardinality({j \in 1..(i - 1) :
                    s[j] = 61 /\ \A k \in (j + 1)..(i - 1) : ~B64IsData(s[k])})

A2bPadCompletes(quad_pos, pads) == quad_pos >= 2 /\ quad_pos + pads + 1 >= 4

A2bStops(s) ==
    {i \in 1..Len(s) : s[i] = 61 /\ A2bPadCompletes(A2bQuadPos(s, i), A2bPads(s, i))}

\* Where the decoding ends: the first completing pad, or past the end of s.
A2bEnd(stops, n) ==
    IF stops = {} THEN n + 1 ELSE CHOOSE i \in stops : \A j \in stops : i <= j

\* Byte k of the output, from the values d of the data characters.
A2bByte(d, k, g, p) ==
    IF p = 0 THEN (d[g + 1] * 4 + (d[g + 2] \div 16)) % 256
    ELSE IF p = 1 THEN ((d[g + 2] % 16) * 16 + (d[g + 3] \div 4)) % 256
    ELSE ((d[g + 3] % 4) * 64 + d[g + 4]) % 256

A2bValues(chars) == [j \in 1..Len(chars) |-> B64Val(chars[j])]

\* The decoder's final state, d being the values of the data characters it
\* read: only whole bytes are output.
A2bState(d, done) ==
    [quad_pos |-> Len(d) % 4,
     done |-> done,
     bin_data |->
        [k \in 1..(3 * (Len(d) \div 4) + (IF Len(d) % 4 = 0 THEN 0 ELSE (Len(d) % 4) - 1))
           |-> A2bByte(d, k, 4 * ((k - 1) \div 3), (k - 1) % 3)]]

A2bRead(s, end) ==
    A2bState(A2bValues(SelectSeq(SubSeq(s, 1, end - 1), B64IsData)), end <= Len(s))

a2b_base64(s) == A2bRead(s, A2bEnd(A2bStops(s), Len(s)))

\* The end of a2b_base64: a group left incomplete is an error.
A2bResult(st) ==
    IF ~st.done /\ st.quad_pos # 0
    THEN [ok |-> FALSE,
          exc |-> [type |-> "binascii.Error",
                   text |-> IF st.quad_pos = 1
                            THEN "Invalid base64-encoded string"
                            ELSE "Incorrect padding"]]
    ELSE [ok |-> TRUE, value |-> st.bin_data]

\* base64.b64decode(s) of a str s: [ok |-> TRUE, value |-> bytes], or the
\* exception raised.  A str must be ASCII to be taken as bytes.
b64decode(s) ==
    IF \E i \in 1..Len(s) : s[i] > 127
    THEN [ok |-> FALSE,
          exc |-> [type |-> "ValueError",
                   text |-> "string argument should contain only ASCII characters"]]
    ELSE A2bResult(a2b_base64(s))

(***************************************************************************)
(* The upload directory "uploaded_documents".                              *)
(***************************************************************************)
Filenames == {"a.txt", "b.txt"}

NoFile == [exists |-> FALSE, data |-> <<>>]

\* open(file_path, "ab"), which keeps what the file holds: what OpenWb must
\* not be.
OpenAb(d, filename) == [d EXCEPT ![filename].exists = TRUE]

\* open(file_path, "wb"): the file is created, or truncated when it exists.
OpenWb(d, filename) == [d EXCEPT ![filename] = [exists |-> TRUE, data |-> <<>>]]

\* f.write(data) at the end of the open file, then the close of "with".
WriteAll(d, filename, data) == [d EXCEPT ![filename].data = @ \o data]

(***************************************************************************)
(* Services.  A call either returns ([ok |-> TRUE, value |-> ...]) or      *)
(* raises ([ok |-> FALSE, exc |-> ...]); logs are the records it emits,    *)
(* disk the directory it leaves and access what it did to the directory.   *)
(***************************************************************************)
HTTPException(status_code, detail) ==
    [type |-> "HTTPException", status_code |-> status_code, detail |-> detail]

\* str(e) of an exception e.  For an HTTPException the text depends on the
\* installed Starlette: "<status_code>: <detail>" where the class defines
\* __str__ (hasStr), and the empty text where it does not.
StrOfException(e, hasStr) ==
    IF e.type = "HTTPException"
    THEN IF hasStr THEN ToString(e.status_code) \o ": " \o e.detail ELSE ""
    ELSE e.text

\* What open() raises when the operating system refuses the file.
OSError == [type |-> "OSError", text |-> "[Errno 13] Permission denied"]

UserMessage(userId, username, message) ==
    [userId |-> userId, username |-> username, message |-> message]

\* A handler that echoes the trimmed message: what handle_user_message must
\* not be.
handle_trimmed_message(msg) ==
    IF Strip(msg.message) = <<>>
    THEN [ok |-> FALSE,
          exc |-> HTTPException(500, "Message cannot be empty."),
          logs |-> <<>>]
    ELSE [ok |-> TRUE,
          value |-> [userId |-> msg.userId,
                     username |-> msg.username,
                     message |-> Strip(msg.message),
                     response |-> EchoPrefix \o msg.username \o EchoSep
                                  \o Strip(msg.message)],
          logs |-> << [level |-> "INFO", event |-> "Message handler output"] >>]

handle_user_message(msg) ==
    IF Strip(msg.message) = <<>>
    THEN [ok |-> FALSE,
          exc |-> HTTPException(500, "Message cannot be empty."),
          logs |-> <<>>]
    ELSE [ok |-> TRUE,
          value |-> [userId |-> msg.userId,
                     username |-> msg.username,
                     message |-> msg.message,
                     response |-> EchoPrefix \o msg.username \o EchoSep \o msg.message],
          logs |-> << [level |-> "INFO", event |-> "Message handler output"] >>]

\* A store that writes every upload to the one file "a.txt": what
\* save_document must not be.
save_document_one_path(d, file, ioOk) ==
    IF ioOk
    THEN [ok |-> TRUE,
          disk |-> WriteAll(OpenWb(d, "a.txt"), "a.txt", file.content),
          access |-> << [filename |-> file.filename, op |-> "written"] >>,
          value |-> [filename |-> file.filename, status |-> Uploaded],
          logs |-> << [level |-> "INFO", event |-> "File saved"] >>]
    ELSE [ok |-> FALSE,
          disk |-> d,
          access |-> <<>>,
          exc |-> HTTPException(500, StrOfException(OSError, TRUE)),
          logs |-> << [level |-> "ERROR", event |-> "File upload failed"] >>]

\* save_document(file) on directory d; ioOk tells whether the operating
\* system lets the file be opened for writing.
save_document(d, file, ioOk) ==
    IF ioOk
    THEN [ok |-> TRUE,
          disk |-> WriteAll(OpenWb(d, file.filename), file.filename, file.content),
          access |-> << [filename |-> file.filename, op |-> "written"] >>,
          value |-> [filename |-> file.filename, status |-> Uploaded],
          logs |-> << [level |-> "INFO", event |-> "File saved"] >>]
    ELSE [ok |-> FALSE,
          disk |-> d,
          access |-> <<>>,
          exc |-> HTTPException(500, StrOfException(OSError, TRUE)),
          logs |-> << [level |-> "ERROR", event |-> "File upload failed"] >>]

(***************************************************************************)
(* Endpoints, as functions of the directory and the request.               *)
(***************************************************************************)
\* An endpoint that only passes on what a service returned or raised.
Passed(d, out) == [disk |-> d, access |-> <<>>] @@ out

process_message(d, msg) == Passed(d, handle_user_message(msg))

\* The except clause of process_message_with_base64_file: whatever was
\* raised in the try block, the handler's own HTTPException included, is
\* logged and raised again as HTTPException(500, str(e)).
Base64Failed(d, access, e, hasStr) ==
    [ok |-> FALSE, disk |-> d, access |-> access,
     exc |-> HTTPException(500, StrOfException(e, hasStr)),
     logs |-> << [level |-> "ERROR", event |-> "Base64 file processing failed"] >>]

\* ... from handle_user_message on: the file is written.
Base64Written(written, msg, hasStr, message_result) ==
    IF ~message_result.ok
    THEN Base64Failed(written, << [filename |-> msg.filename, op |-> "written"] >>,
                      message_result.exc, hasStr)
    ELSE [ok |-> TRUE, disk |-> written,
          access |-> << [filename |-> msg.filename, op |-> "written"] >>,
          value |-> [messageResponse |-> message_result.value,
                     fileUpload |-> [filename |-> msg.filename, status |-> Uploaded]],
          logs |-> message_result.logs \o
                   << [level |-> "INFO", event |-> "Base64 file and message processed"] >>]

\* ... from f.write(base64.b64decode(msg.fileData)) on: the file is open,
\* and so empty, when the argument of write is computed.
Base64Opened(opened, msg, hasStr, decoded) ==
    IF ~decoded.ok
    THEN Base64Failed(opened, << [filename |-> msg.filename, op |-> "truncated"] >>,
                      decoded.exc, hasStr)
    ELSE Base64Written(WriteAll(opened, msg.filename, decoded.value), msg, hasStr,
                       handle_user_message(
                           UserMessage(msg.userId, msg.username, msg.message)))

process_message_with_base64_file(d, msg, ioOk, hasStr) ==
    IF ~ioOk
    THEN Base64Failed(d, <<>>, OSError, hasStr)
    ELSE Base64Opened(OpenWb(d, msg.filename), msg, hasStr, b64decode(msg.fileData))

\* process_message_with_file from handle_user_message on.
WithFileSaved(file_result, message_result) ==
    IF ~message_result.ok
    THEN [ok |-> FALSE, disk |-> file_result.disk, access |-> file_result.access,
          exc |-> message_result.exc,
          logs |-> file_result.logs \o message_result.logs]
    ELSE [ok |-> TRUE, disk |-> file_result.disk, access |-> file_result.access,
          value |-> [messageResponse |-> message_result.value,
                     fileUpload |-> file_result.value],
          logs |-> file_result.logs \o message_result.logs \o
                   << [level |-> "INFO", event |-> "Combined message and file response"] >>]

WithFile(file_result, form) ==
    IF ~file_result.ok
    THEN file_result
    ELSE WithFileSaved(file_result,
                       handle_user_message(
                           UserMessage(form.userId, form.username, form.message)))

\* The message validated before the file is saved: what
\* process_message_with_file must not be.
validate_then_save(d, form, ioOk) ==
    IF ~handle_user_message(UserMessage(form.userId, form.username, form.message)).ok
    THEN Passed(d, handle_user_message(
                       UserMessage(form.userId, form.username, form.message)))
    ELSE WithFile(save_document(d, form.file, ioOk), form)

process_message_with_file(d, form, ioOk) == WithFile(save_document(d, form.file, ioOk), form)

upload_document(d, form, ioOk) == save_document(d, form.file, ioOk)

(***************************************************************************)
(* JSON values.  Every node has the same four fields, so that nodes of     *)
(* different kinds can be compared: t is the kind ("str", "num", "null",   *)
(* "true", "false", "arr", "obj", and "member" for a key/value pair of an  *)
(* object), s a text, n a number, items the children.                      *)
(***************************************************************************)
JStr(s) == [t |-> "str", s |-> s, n |-> 0, items |-> <<>>]
JNum(n) == [t |-> "num", s |-> <<>>, n |-> n, items |-> <<>>]
JNull == [t |-> "null", s |-> <<>>, n |-> 0, items |-> <<>>]
JTrue == [t |-> "true", s |-> <<>>, n |-> 0, items |-> <<>>]
JFalse == [t |-> "false", s |-> <<>>, n |-> 0, items |-> <<>>]
JArr(items) == [t |-> "arr", s |-> <<>>, n |-> 0, items |-> items]
JObj(members) == [t |-> "obj", s |-> <<>>, n |-> 0, items |-> members]
Member(key, value) == [t |-> "member", s |-> key, n |-> 0, items |-> <<value>>]

Raise(type) == [ok |-> FALSE, exc |-> [type |-> type, text |-> type]]

(***************************************************************************)
(* bytes.decode("utf-8"): one- and two-byte forms; the lead bytes of the   *)
(* three- and four-byte forms (0xE0..0xF4) are in no input of the model.   *)
(***************************************************************************)
Utf8Valid(b, i) ==
    \/ b[i] < 128
    \/ b[i] \in 194..223 /\ i < Len(b) /\ b[i + 1] \in 128..191
    \/ b[i] \in 128..191 /\ i > 1 /\ b[i - 1] \in 194..223

\* The characters that start at the positions at of b.
Utf8Chars(b, at) ==
    [k \in 1..Len(at) |->
        IF b[at[k]] < 128 THEN b[at[k]]
        ELSE (b[at[k]] - 192) * 64 + (b[at[k] + 1] - 128)]

\* The positions of b where a character starts.
Utf8Starts(b) == SelectSeq([i \in 1..Len(b) |-> i], LAMBDA i : b[i] \notin 128..191)

utf8_decode(b) ==
    IF \A i \in 1..Len(b) : Utf8Valid(b, i)
    THEN [ok |-> TRUE, value |-> Utf8Chars(b, Utf8Starts(b))]
    ELSE Raise("UnicodeDecodeError")

(***************************************************************************)
(* json.loads: the decoder of the standard library for strings, integers,  *)
(* null, true, false, arrays and objects.  Fractions, exponents, NaN,      *)
(* Infinity and surrogate pairs are in no input of the model.              *)
(***************************************************************************)
JsonFail == [ok |-> FALSE, v |-> JNull, i |-> 0]

RECURSIVE SkipWs(_, _)
SkipWs(s, i) ==
    IF i <= Len(s) /\ s[i] \in {32, 9, 10, 13} THEN SkipWs(s, i + 1) ELSE i

MatchAt(s, i, lit) ==
    /\ i + Len(lit) - 1 <= Len(s)
    /\ SubSeq(s, i, i + Len(lit) - 1) = lit

IsDigit(c) == c \in 48..57

HexVal(c) ==
    IF c \in 48..57 THEN c - 48
    ELSE IF c \in 97..102 THEN c - 87
    ELSE IF c \in 65..70 THEN c - 55
    ELSE 16

\* The first quote, backslash or control character of s from i on, or
\* Len(s) + 1 when there is none.
NextSpecial(s, from) ==
    LET special == {k \in from..Len(s) : s[k] = 34 \/ s[k] = 92 \/ s[k] < 32}
    IN  IF special = {} THEN Len(s) + 1
        ELSE CHOOSE k \in special : \A l \in special : k <= l

\* py_scanstring from the character after the opening quote: the plain
\* characters up to the next special one, at j, are taken as they are.
RECURSIVE ScanString(_, _, _)
ScanStringAt(s, chunk, j) ==
    IF j > Len(s) THEN JsonFail                  \* unterminated string
    ELSE IF s[j] = 34 THEN [ok |-> TRUE, v |-> JStr(chunk), i |-> j + 1]
    ELSE IF s[j] < 32 THEN JsonFail              \* control character
    ELSE IF j + 1 > Len(s) THEN JsonFail
    ELSE IF s[j + 1] \in {34, 92, 47} THEN ScanString(s, j + 2, Append(chunk, s[j + 1]))
    ELSE IF s[j + 1] = 98 THEN ScanString(s, j + 2, Append(chunk, 8))
    ELSE IF s[j + 1] = 102 THEN ScanString(s, j + 2, Append(chunk, 12))
    ELSE IF s[j + 1] = 110 THEN ScanString(s, j + 2, Append(chunk, 10))
    ELSE IF s[j + 1] = 114 THEN ScanString(s, j + 2, Append(chunk, 13))
    ELSE IF s[j + 1] = 116 THEN ScanString(s, j + 2, Append(chunk, 9))
    ELSE IF /\ s[j + 1] = 117
            /\ j + 5 <= Len(s)
            /\ \A k \in 2..5 : HexVal(s[j + k]) < 16
    THEN ScanString(s, j + 6,
            Append(chunk, HexVal(s[j + 2]) * 4096 + HexVal(s[j + 3]) * 256
                          + HexVal(s[j + 4]) * 16 + HexVal(s[j + 5])))
    ELSE JsonFail

ScanStringTo(s, i, acc, j) == ScanStringAt(s, acc \o SubSeq(s, i, j - 1), j)

ScanString(s, i, acc) == ScanStringTo(s, i, acc, NextSpecial(s, i))

RECURSIVE ScanDigits(_, _, _)
ScanDigits(s, i, acc) ==
    IF i <= Len(s) /\ IsDigit(s[i])
    THEN ScanDigits(s, i + 1, acc * 10 + (s[i] - 48))
    ELSE [ok |-> TRUE, v |-> JNum(acc), i |-> i]

\* NUMBER_RE, -?(0|[1-9][0-9]*), with the digits at j.
ScanInteger(s, j) ==
    IF j > Len(s) \/ ~IsDigit(s[j]) THEN JsonFail
    ELSE IF s[j] = 48 THEN [ok |-> TRUE, v |-> JNum(0), i |-> j + 1]
    ELSE ScanDigits(s, j, 0)

Negated(r) == IF r.ok THEN [r EXCEPT !.v = JNum(0 - r.v.n)] ELSE r

ScanNumber(s, i) ==
    IF s[i] = 45 THEN Negated(ScanInteger(s, i + 1)) ELSE ScanInteger(s, i)

RECURSIVE ScanValue(_, _), ScanElements(_, _, _), ScanMembers(_, _, _)

\* JSONArray: after an element, at j.
ElementsAt(s, acc, j) ==
    IF j > Len(s) THEN JsonFail
    ELSE IF s[j] = 93 THEN [ok |-> TRUE, v |-> JArr(acc), i |-> j + 1]
    ELSE IF s[j] = 44 THEN ScanElements(s, SkipWs(s, j + 1), acc)
    ELSE JsonFail

ElementScanned(s, acc, r) ==
    IF ~r.ok THEN JsonFail ELSE ElementsAt(s, Append(acc, r.v), SkipWs(s, r.i))

\* JSONArray after '[' and white space, the array not being empty.
ScanElements(s, i, acc) == ElementScanned(s, acc, ScanValue(s, i))

\* JSONObject: after a member, at j.
MembersAt(s, acc, j) ==
    IF j > Len(s) THEN JsonFail
    ELSE IF s[j] = 125 THEN [ok |-> TRUE, v |-> JObj(acc), i |-> j + 1]
    ELSE IF s[j] = 44 THEN ScanMembers(s, SkipWs(s, j + 1), acc)
    ELSE JsonFail

MemberScanned(s, acc, key, r) ==
    IF ~r.ok THEN JsonFail
    ELSE MembersAt(s, Append(acc, Member(key, r.v)), SkipWs(s, r.i))

\* ... the key read, the colon expected at c.
MemberColon(s, acc, key, c) ==
    IF c > Len(s) \/ s[c] # 58 THEN JsonFail
    ELSE MemberScanned(s, acc, key, ScanValue(s, SkipWs(s, c + 1)))

MemberKey(s, acc, k) ==
    IF ~k.ok THEN JsonFail ELSE MemberColon(s, acc, k.v.s, SkipWs(s, k.i))

\* JSONObject after '{' and white space, the object not being empty.
ScanMembers(s, i, acc) ==
    IF i > Len(s) \/ s[i] # 34 THEN JsonFail
    ELSE MemberKey(s, acc, ScanString(s, i + 1, <<>>))

\* '{' or '[' read, the next character that is no white space at j.
ScanObject(s, j) ==
    IF j <= Len(s) /\ s[j] = 125
    THEN [ok |-> TRUE, v |-> JObj(<<>>), i |-> j + 1]
    ELSE ScanMembers(s, j, <<>>)

ScanArray(s, j) ==
    IF j <= Len(s) /\ s[j] = 93
    THEN [ok |-> TRUE, v |-> JArr(<<>>), i |-> j + 1]
    ELSE ScanElements(s, j, <<>>)

\* scan_once at i.
ScanValue(s, i) ==
    IF i > Len(s) THEN JsonFail
    ELSE IF s[i] = 34 THEN ScanString(s, i + 1, <<>>)
    ELSE IF s[i] = 123 THEN ScanObject(s, SkipWs(s, i + 1))
    ELSE IF s[i] = 91 THEN ScanArray(s, SkipWs(s, i + 1))
    ELSE IF MatchAt(s, i, <<110, 117, 108, 108>>)             \* null
    THEN [ok |-> TRUE, v |-> JNull, i |-> i + 4]
    ELSE IF MatchAt(s, i, <<116, 114, 117, 101>>)             \* true
    THEN [ok |-> TRUE, v |-> JTrue, i |-> i + 4]
    ELSE IF MatchAt(s, i, <<102, 97, 108, 115, 101>>)         \* false
    THEN [ok |-> TRUE, v |-> JFalse, i |-> i + 5]
    ELSE IF s[i] = 45 \/ IsDigit(s[i]) THEN ScanNumber(s, i)
    ELSE JsonFail

\* The end of json.loads: only white space may follow the value.
JsonLoaded(s, r) ==
    IF r.ok /\ SkipWs(s, r.i) > Len(s)
    THEN [ok |-> TRUE, value |-> r.v]
    ELSE Raise("JSONDecodeError")

json_loads(s) == JsonLoaded(s, ScanValue(s, SkipWs(s, 1)))

(***************************************************************************)
(* Python dicts, as the sequence of their items [k, v] in insertion order. *)
(* Keys are compared as JSON nodes; the numeric keys that Python holds     *)
(* equal across types (1 == True) are in no input of the model.            *)
(***************************************************************************)
RECURSIVE DictSet(_, _, _)
DictSet(dct, k, v) ==
    IF dct = <<>> THEN << [k |-> k, v |-> v] >>
    ELSE IF Head(dct).k = k THEN << [k |-> k, v |-> v] >> \o Tail(dct)
    ELSE << Head(dct) >> \o DictSet(Tail(dct), k, v)

DictHas(dct, k) == \E i \in 1..Len(dct) : dct[i].k = k

DictGet(dct, k, default) ==
    IF DictHas(dct, k)
    THEN dct[CHOOSE i \in 1..Len(dct) : dct[i].k = k].v
    ELSE default

\* The dict json.loads builds of an object: a repeated key keeps its last value.
RECURSIVE ObjDict(_, _)
ObjDict(members, acc) ==
    IF members = <<>> THEN acc
    ELSE ObjDict(Tail(members),
                 DictSet(acc, JStr(Head(members).s), Head(members).items[1]))

(***************************************************************************)
(* Claims decoder.                                                         *)
(***************************************************************************)
ClaimsKey == <<99, 108, 97, 105, 109, 115>>     \* "claims"
TypKey == <<116, 121, 112>>                     \* "typ"
ValKey == <<118, 97, 108>>                      \* "val"

\* "http://schemas.xmlsoap.org/ws/2005/05/identity/claims/emailaddress"
EmailClaimType ==
    <<104, 116, 116, 112, 58, 47, 47, 115, 99, 104, 101, 109, 97, 115, 46, 120,
      109, 108, 115, 111, 97, 112, 46, 111, 114, 103, 47, 119, 115, 47, 50, 48,
      48, 53, 47, 48, 53, 47, 105, 100, 101, 110, 116, 105, 116, 121, 47, 99,
      108, 97, 105, 109, 115, 47, 101, 109, 97, 105, 108, 97, 100, 100, 114,
      101, 115, 115>>

Unknown == <<117, 110, 107, 110, 111, 119, 110>>                 \* "unknown"
OkUser == <<111, 107, 32, 45, 32, 117, 115, 101, 114, 58, 32>>   \* "ok - user: "

\* What "for claim in x" iterates over, for a JSON value x that can be
\* iterated: the items of a list, the characters of a str, the keys of a dict.
DictKeys(d) == [i \in 1..Len(d) |-> d[i].k]

IterItems(x) ==
    IF x.t = "arr" THEN x.items
    ELSE IF x.t = "str" THEN [i \in 1..Len(x.s) |-> JStr(<<x.s[i]>>)]
    ELSE DictKeys(ObjDict(x.items, <<>>))

\* claim["typ"] and claim["val"] of a claim that is a dict.
ClaimItem(d) ==
    IF ~DictHas(d, JStr(TypKey)) \/ ~DictHas(d, JStr(ValKey)) THEN Raise("KeyError")
    ELSE [ok |-> TRUE, typ |-> DictGet(d, JStr(TypKey), JNull),
                       val |-> DictGet(d, JStr(ValKey), JNull)]

\* A list or a dict cannot be the key of a dict.
ClaimHashed(item) ==
    IF item.ok /\ item.typ.t \in {"arr", "obj"} THEN Raise("TypeError") ELSE item

\* Only a dict can be subscripted by "typ".
ClaimOf(claim) ==
    IF claim.t # "obj" THEN Raise("TypeError")
    ELSE ClaimHashed(ClaimItem(ObjDict(claim.items, <<>>)))

\* {claim["typ"]: claim["val"] for claim in claims}, from claim i on.
RECURSIVE ClaimsComprehension(_, _, _)
ClaimAdded(claims, i, acc, item) ==
    IF ~item.ok THEN item
    ELSE ClaimsComprehension(claims, i + 1, DictSet(acc, item.typ, item.val))

ClaimsComprehension(claims, i, acc) ==
    IF i > Len(claims) THEN [ok |-> TRUE, value |-> acc]
    ELSE ClaimAdded(claims, i, acc, ClaimOf(claims[i]))

\* The try block of get_user_from_request, statement by statement.
ClaimsOf(claims) ==
    IF claims.t \notin {"arr", "str", "obj"} THEN Raise("TypeError")   \* not iterable
    ELSE ClaimsComprehension(IterItems(claims), 1, <<>>)

PrincipalClaims(principal_json) ==
    IF ~principal_json.ok THEN principal_json
    ELSE IF principal_json.value.t # "obj" THEN Raise("AttributeError")   \* no .get
    ELSE ClaimsOf(DictGet(ObjDict(principal_json.value.items, <<>>),
                          JStr(ClaimsKey), JArr(<<>>)))

PrincipalJson(principal_decoded) ==
    IF ~principal_decoded.ok THEN principal_decoded
    ELSE PrincipalClaims(json_loads(principal_decoded.value))

PrincipalDecoded(raw) ==
    IF ~raw.ok THEN raw ELSE PrincipalJson(utf8_decode(raw.value))

DecodePrincipal(principal_encoded) == PrincipalDecoded(b64decode(principal_encoded))

\* A decoder without the except clause: what UserOf must not be.
UserRaises(claims) ==
    IF claims.ok
    THEN [ok |-> TRUE, value |-> claims.value, logs |-> <<>>]
    ELSE [ok |-> FALSE, exc |-> claims.exc, value |-> <<>>, logs |-> <<>>]

\* The except clause: a warning and the empty dict.
UserOf(claims) ==
    IF claims.ok
    THEN [ok |-> TRUE, value |-> claims.value, logs |-> <<>>]
    ELSE [ok |-> TRUE, value |-> <<>>,
          logs |-> << [level |-> "WARNING", event |-> "Failed to decode user principal"] >>]

\* header: [present, value], the X-MS-CLIENT-PRINCIPAL header of the request.
get_user_from_request(header) ==
    IF ~header.present \/ header.value = <<>>
    THEN [ok |-> TRUE, value |-> <<>>, logs |-> <<>>]
    ELSE UserOf(DecodePrincipal(header.value))

RECURSIVE DecimalText(_)
DecimalText(n) ==
    IF n < 10 THEN <<48 + n>> ELSE Append(DecimalText(n \div 10), 48 + (n % 10))

\* str(x) as the f-string formats a claim value; lists and dicts are not
\* email values in any input of the model.
PyStr(x) ==
    IF x.t = "str" THEN x.s
    ELSE IF x.t = "num"
    THEN IF x.n < 0 THEN <<45>> \o DecimalText(0 - x.n) ELSE DecimalText(x.n)
    ELSE IF x.t = "null" THEN <<78, 111, 110, 101>>            \* None
    ELSE IF x.t = "true" THEN <<84, 114, 117, 101>>            \* True
    ELSE <<70, 97, 108, 115, 101>>                             \* False

\* health_check after get_user_from_request.
HealthOf(d, user_claims) ==
    IF ~user_claims.ok
    THEN [ok |-> FALSE, disk |-> d, access |-> <<>>,
          exc |-> user_claims.exc, logs |-> user_claims.logs]
    ELSE [ok |-> TRUE, disk |-> d, access |-> <<>>,
          value |-> [status |-> OkUser \o PyStr(DictGet(user_claims.value,
                                                        JStr(EmailClaimType),
                                                        JStr(Unknown)))],
          logs |-> user_claims.logs \o
                   << [level |-> "INFO", event |-> "Health check invoked by user"] >>]

health_check(d, request) == HealthOf(d, get_user_from_request(request.header))

(***************************************************************************)
(* Requests, as the clients send them.                                     *)
(***************************************************************************)
MessageRequest(userId, username, message) ==
    [method |-> "POST", url |-> "/message",
     userId |-> userId, username |-> username, message |-> message]

Base64Request(userId, username, message, filename, fileData) ==
    [method |-> "POST", url |-> "/message/with-messangeAndbase64File",
     userId |-> userId, username |-> username, message |-> message,
     filename |-> filename, fileData |-> fileData]

WithFileRequest(userId, username, message, filename, content) ==
    [method |-> "POST", url |-> "/message/with-file",
     userId |-> userId, username |-> username, message |-> message,
     file |-> [filename |-> filename, content |-> content]]

UploadRequest(userId, username, filename, content) ==
    [method |-> "POST", url |-> "/document/upload",
     userId |-> userId, username |-> username,
     file |-> [filename |-> filename, content |-> content]]

HealthRequest(header) == [method |-> "GET", url |-> "/health", header |-> header]

NoHeader == [present |-> FALSE, value |-> <<>>]
Header(value) == [present |-> TRUE, value |-> value]

NoRequest == [method |-> "", url |-> ""]
NoResponse == [raised |-> FALSE, status_code |-> 0, body |-> [detail |-> ""]]

(***************************************************************************)
(* The middleware and the routes.                                          *)
(***************************************************************************)
\* A call_next that lets an HTTPException through to the middleware: what
\* CallNext must not be.
CallNextRaising(out) ==
    IF out.ok
    THEN [raised |-> FALSE, status_code |-> 200, body |-> out.value]
    ELSE [raised |-> TRUE, status_code |-> 0, body |-> [detail |-> ""]]

\* call_next(request) around an endpoint's outcome: a returned value becomes
\* the 200 response, an HTTPException the response of its status code with
\* {detail}, and any other exception propagates to the middleware.
CallNext(out) ==
    IF out.ok
    THEN [raised |-> FALSE, status_code |-> 200, body |-> out.value]
    ELSE IF out.exc.type = "HTTPException"
    THEN [raised |-> FALSE, status_code |-> out.exc.status_code,
          body |-> [detail |-> out.exc.detail]]
    ELSE [raised |-> TRUE, status_code |-> 0, body |-> [detail |-> ""]]

Tagged(r, records) == [i \in 1..Len(records) |-> [rid |-> r] @@ records[i]]

\* dispatch up to call_next: the body is read and the request is logged.
DispatchRequest(r, inputs) ==
    /\ pc[r] = "idle"
    /\ \E request \in inputs :
          /\ req' = [req EXCEPT ![r] = request]
          /\ log' = Append(log, [rid |-> r, level |-> "INFO",
                                 event |-> "Incoming request",
                                 method |-> request.method, url |-> request.url,
                                 body |-> request])
    /\ pc' = [pc EXCEPT ![r] = "call_next"]
    /\ UNCHANGED <<disk, resp, history>>

\* The endpoint of request r has run to its end with outcome out.
Routed(r, out) ==
    /\ disk' = out.disk
    /\ history' = history \o Tagged(r, out.access)
    /\ log' = log \o Tagged(r, out.logs)
    /\ resp' = [resp EXCEPT ![r] = CallNext(out)]
    /\ pc' = [pc EXCEPT ![r] = "returned"]
    /\ UNCHANGED req

ProcessMessage(r) ==
    /\ pc[r] = "call_next"
    /\ req[r].url = "/message"
    /\ Routed(r, process_message(disk, req[r]))

ProcessMessageWithBase64File(r) ==
    /\ pc[r] = "call_next"
    /\ req[r].url = "/message/with-messangeAndbase64File"
    /\ \E ioOk \in BOOLEAN, hasStr \in BOOLEAN :
          Routed(r, process_message_with_base64_file(disk, req[r], ioOk, hasStr))

ProcessMessageWithFile(r) ==
    /\ pc[r] = "call_next"
    /\ req[r].url = "/message/with-file"
    /\ \E ioOk \in BOOLEAN :
          Routed(r, process_message_with_file(disk, req[r], ioOk))

UploadDocument(r) ==
    /\ pc[r] = "call_next"
    /\ req[r].url = "/document/upload"
    /\ \E ioOk \in BOOLEAN :
          Routed(r, upload_document(disk, req[r], ioOk))

HealthCheck(r) ==
    /\ pc[r] = "call_next"
    /\ req[r].url = "/health"
    /\ Routed(r, health_check(disk, req[r]))

\* dispatch after call_next: an exception is logged and raised again, a
\* response has its status logged and is returned.
DispatchResponse(r) ==
    /\ pc[r] = "returned"
    /\ log' = Append(log,
                IF resp[r].raised
                THEN [rid |-> r, level |-> "ERROR",
                      event |-> "Unhandled exception during request processing"]
                ELSE [rid |-> r, level |-> "INFO", event |-> "Response status",
                      status_code |-> resp[r].status_code])
    /\ pc' = [pc EXCEPT ![r] = "done"]
    /\ UNCHANGED <<disk, req, resp, history>>

(***************************************************************************)
(* What the clients and the platform do to build their requests:           *)
(* base64.b64encode (above), UTF-8 encoding and JSON serialisation.        *)
(***************************************************************************)
\* The concatenation of the sequences ss[lo], ..., ss[hi].
RECURSIVE Concat(_, _, _)
Concat(ss, lo, hi) ==
    IF lo > hi THEN <<>>
    ELSE IF lo = hi THEN ss[lo]
    ELSE Concat(ss, lo, (lo + hi) \div 2) \o Concat(ss, ((lo + hi) \div 2) + 1, hi)

\* str.encode("utf-8") for the code points below 2048.
Utf8Bytes(c) == IF c < 128 THEN <<c>> ELSE <<192 + (c \div 64), 128 + (c % 64)>>

utf8_encode(s) == Concat([i \in 1..Len(s) |-> Utf8Bytes(s[i])], 1, Len(s))

\* json.dumps with compact separators and ensure_ascii=False, for texts
\* that need no escape.
RECURSIVE JsonText(_)
JsonJoin(texts) ==
    Concat([i \in 1..Len(texts) |-> IF i = 1 THEN texts[i] ELSE <<44>> \o texts[i]],
           1, Len(texts))

JsonText(x) ==
    IF x.t = "str" THEN <<34>> \o x.s \o <<34>>
    ELSE IF x.t = "num" THEN PyStr(x)
    ELSE IF x.t = "null" THEN <<110, 117, 108, 108>>
    ELSE IF x.t = "true" THEN <<116, 114, 117, 101>>
    ELSE IF x.t = "false" THEN <<102, 97, 108, 115, 101>>
    ELSE IF x.t = "member" THEN <<34>> \o x.s \o <<34, 58>> \o JsonText(x.items[1])
    ELSE (IF x.t = "arr" THEN <<91>> ELSE <<123>>)
         \o JsonJoin([i \in 1..Len(x.items) |-> JsonText(x.items[i])])
         \o (IF x.t = "arr" THEN <<93>> ELSE <<125>>)

\* The header the platform sends for the JSON value x.
EncodedPrincipal(x) == b64encode(utf8_encode(JsonText(x)))

(***************************************************************************)
(* The requests tried.                                                     *)
(***************************************************************************)
UserIds == { <<117, 49>> }                          \* "u1"
Usernames == { <<97, 108>>, <<32>> }                \* "al", " "
MsgChars == {32, 9, 104}                            \* ' ', '\t', 'h'
Messages == SeqsUpTo(MsgChars, MaxMsgLen)
ByteStrings == SeqsUpTo({0, 97, 255}, MaxBytes)
DataChars == {89, 81, 61, 33, 233}                  \* 'Y', 'Q', '=', '!', e-acute
DataStrings == SeqsUpTo(DataChars, MaxDataLen)

Claim(typ, val) == JObj(<< Member(TypKey, typ), Member(ValKey, val) >>)
Principal(claims) == JObj(<< Member(ClaimsKey, JArr(claims)) >>)

\* Claims of the right shape: the email address twice over, and a name.
ClaimRecords ==
    { Claim(JStr(EmailClaimType), JStr(<<97, 64, 98>>)),       \* "a@b"
      Claim(JStr(EmailClaimType), JStr(<<233>>)),              \* e-acute
      Claim(JStr(<<110>>), JStr(<<97, 108>>)) }                \* n: "al"
ClaimLists == SeqsUpTo(ClaimRecords, MaxClaims)
Principals == { Principal(claims) : claims \in ClaimLists }

\* Valid JSON that is no principal with a claims array of {typ, val} records.
WrongShapes ==
    { JArr(<<>>), JStr(<<104>>), JNum(5), JNull, JObj(<<>>),
      JObj(<< Member(ClaimsKey, JStr(<<120>>)) >>),
      JObj(<< Member(ClaimsKey, JStr(<<>>)) >>),
      JObj(<< Member(ClaimsKey, JNull) >>),
      JObj(<< Member(ClaimsKey, JObj(<<>>)) >>),
      Principal(<< JNum(1) >>),
      Principal(<< JObj(<< Member(TypKey, JStr(<<110>>)) >>) >>),
      Principal(<< JObj(<< Member(ValKey, JStr(<<110>>)) >>) >>),
      Principal(<< Claim(JArr(<<>>), JStr(<<110>>)) >>),
      Principal(<< Claim(JStr(EmailClaimType), JStr(<<97, 64, 98>>)), JNum(5) >>) }

\* Payloads that are no JSON text, or no UTF-8.
RawPayloads == { <<>>, <<104, 105>>, <<255>>, <<195>>, <<123, 125, 195, 169>> }

Truncations(h) == { SubSeq(h, 1, k) : k \in 0..(Len(h) - 1) }
Insertions(h, c) ==
    { SubSeq(h, 1, k) \o <<c>> \o SubSeq(h, k + 1, Len(h)) : k \in {0, Len(h) \div 2, Len(h)} }

WellFormedHeaders == { EncodedPrincipal(x) : x \in Principals }

\* The headers of the principals of one claim, cut short.
TruncatedHeaders ==
    UNION { Truncations(EncodedPrincipal(Principal(<<c>>))) : c \in ClaimRecords }

HeaderValues ==
    WellFormedHeaders
    \cup TruncatedHeaders
    \cup UNION { Insertions(h, 33) \cup Insertions(h, 233) : h \in WellFormedHeaders }
    \cup { EncodedPrincipal(x) : x \in WrongShapes }
    \cup { b64encode(b) : b \in RawPayloads }
    \cup { <<33, 33>>, <<89>> }

\* Every request of the single-request specification.
AllRequests ==
    { MessageRequest(u, n, m) : u \in UserIds, n \in Usernames, m \in Messages }
    \cup { WithFileRequest(u, <<97, 108>>, m, f, b) :
             u \in UserIds, m \in Messages, f \in Filenames, b \in ByteStrings }
    \cup { UploadRequest(u, <<97, 108>>, f, b) :
             u \in UserIds, f \in Filenames, b \in ByteStrings }
    \cup { Base64Request(u, <<97, 108>>, m, f, b64encode(b)) :
             u \in UserIds, m \in Messages, f \in Filenames, b \in ByteStrings }
    \cup { Base64Request(u, <<97, 108>>, m, "a.txt", s) :
             u \in UserIds, m \in { <<104>>, <<32>> }, s \in DataStrings }
    \cup { HealthRequest(NoHeader) }
    \cup { HealthRequest(Header(h)) : h \in HeaderValues }

\* The uploads of the concurrent specification, one of them to "b.txt".
Hi == <<104, 105>>                                  \* "hi"
Blank == <<32>>                                     \* " "
BytesA == <<97>>
BytesBC == <<98, 99>>
BytesZF == <<0, 255>>
ConcurrentRequests ==
    { UploadRequest(<<117, 49>>, <<97, 108>>, "a.txt", BytesA),
      WithFileRequest(<<117, 49>>, <<97, 108>>, Blank, "b.txt", BytesBC),
      Base64Request(<<117, 49>>, <<97, 108>>, Hi, "a.txt", b64encode(BytesZF)),
      Base64Request(<<117, 49>>, <<97, 108>>, Hi, "a.txt", <<89>>) }

(***************************************************************************)
(* Specifications.                                                         *)
(***************************************************************************)
InitWith(R) ==
    /\ disk = [f \in Filenames |-> NoFile]
    /\ pc = [r \in R |-> "idle"]
    /\ req = [r \in R |-> NoRequest]
    /\ resp = [r \in R |-> NoResponse]
    /\ log = <<>>
    /\ history = <<>>

Endpoint(r) ==
    \/ ProcessMessage(r)
    \/ ProcessMessageWithBase64File(r)
    \/ ProcessMessageWithFile(r)
    \/ UploadDocument(r)
    \/ HealthCheck(r)

\* NumRequests uploads in flight together.
Init == InitWith(1..NumRequests)

Next ==
    \/ \E r \in 1..NumRequests : DispatchRequest(r, ConcurrentRequests)
    \/ \E r \in 1..NumRequests : ProcessMessageWithBase64File(r)
    \/ \E r \in 1..NumRequests : ProcessMessageWithFile(r)
    \/ \E r \in 1..NumRequests : UploadDocument(r)
    \/ \E r \in 1..NumRequests : DispatchResponse(r)

Spec == Init /\ [][Next]_vars

\* One request, drawn from all the requests tried.
InitSingle == InitWith({1})

NextSingle ==
    \/ DispatchRequest(1, AllRequests)
    \/ Endpoint(1)
    \/ DispatchResponse(1)

SpecSingle == InitSingle /\ [][NextSingle]_vars

(***************************************************************************)
(* Properties.                                                             *)
(***************************************************************************)
Ran(r) == pc[r] \in {"returned", "done"}

Base64Url == "/message/with-messangeAndbase64File"
WithFileUrl == "/message/with-file"
MessageUrls == {"/message", WithFileUrl, Base64Url}
CombinedUrls == {WithFileUrl, Base64Url}

\* A message that is empty or white space only.
IsBlank(m) == \A i \in 1..Len(m) : IsSpace(m[i])

\* The record the handler owes a request: "Echo to {username}: {message}".
EchoOf(request) ==
    [userId |-> request.userId,
     username |-> request.username,
     message |-> request.message,
     response |-> <<69, 99, 104, 111, 32, 116, 111, 32>> \o request.username
                  \o <<58, 32>> \o request.message]

\* The file name a request names, and the bytes its client sent.
Target(request) ==
    IF request.url = Base64Url THEN request.filename ELSE request.file.filename

ClientEncoded == [b \in ByteStrings |-> b64encode(b)]
HasSentBytes(request) ==
    request.url = Base64Url => \E b \in ByteStrings : ClientEncoded[b] = request.fileData
SentBytes(request) ==
    IF request.url = Base64Url
    THEN CHOOSE b \in ByteStrings : ClientEncoded[b] = request.fileData
    ELSE request.file.content

\* The accesses of history h to file f, and the requests that wrote f.
AccessesTo(h, f) == SelectSeq(h, LAMBDA e : e.filename = f)
WritersIn(h, f) == { h[i].rid : i \in { j \in 1..Len(h) : h[j].filename = f /\ h[j].op = "written" } }
Wrote(r) == \E i \in 1..Len(history) : history[i].rid = r /\ history[i].op = "written"
Touched(r) == \E i \in 1..Len(history) : history[i].rid = r

\* C1: a message that is not blank is echoed: the handler returns userId,
\* username and message as received (the message untrimmed) and the response
\* "Echo to {username}: {message}"; POST /message answers 200 with that
\* record, and a combined endpoint whose file was written answers 200 with
\* that record as messageResponse.
C1_EchoesNonBlank ==
    \A r \in DOMAIN pc :
        (Ran(r) /\ req[r].url \in MessageUrls /\ ~IsBlank(req[r].message)) =>
            /\ handle_user_message(UserMessage(req[r].userId, req[r].username,
                                               req[r].message)).ok
            /\ handle_user_message(UserMessage(req[r].userId, req[r].username,
                                               req[r].message)).value = EchoOf(req[r])
            /\ (req[r].url = "/message") =>
                   (resp[r].status_code = 200 /\ resp[r].body = EchoOf(req[r]))
            /\ (req[r].url \in CombinedUrls /\ Wrote(r)) =>
                   (/\ resp[r].status_code = 200
                    /\ resp[r].body.messageResponse = EchoOf(req[r]))

\* The base64 endpoint has echoed the message " h", leading blank included.
C1_Witness ==
    /\ pc[1] = "done"
    /\ req[1].url = Base64Url
    /\ req[1].message = <<32, 104>>
    /\ resp[1].status_code = 200
    /\ resp[1].body.messageResponse.message = <<32, 104>>

\* C2: for a blank message the handler raises HTTPException(500, "Message
\* cannot be empty.") and returns nothing; every endpoint that carries the
\* message answers 500 with an error body, never a success body, and
\* POST /message and POST /message/with-file (its file written) carry the
\* handler's detail.
C2_BlankRejected ==
    \A r \in DOMAIN pc :
        (Ran(r) /\ req[r].url \in MessageUrls /\ IsBlank(req[r].message)) =>
            /\ handle_user_message(UserMessage(req[r].userId, req[r].username,
                                               req[r].message))
                 = [ok |-> FALSE,
                    exc |-> [type |-> "HTTPException", status_code |-> 500,
                             detail |-> "Message cannot be empty."],
                    logs |-> <<>>]
            /\ resp[r].status_code = 500
            /\ DOMAIN resp[r].body = {"detail"}
            /\ (req[r].url = "/message" \/ (req[r].url = WithFileUrl /\ Wrote(r))) =>
                   resp[r].body.detail = "Message cannot be empty."

\* A message of a blank and a tab was refused by the base64 endpoint, after
\* its file was written.
C2_Witness ==
    /\ pc[1] = "done"
    /\ req[1].url = Base64Url
    /\ req[1].message = <<32, 9>>
    /\ Wrote(1)
    /\ resp[1].status_code = 500

\* C3: a file holds exactly the bytes of the last upload written to it, the
\* multipart bytes as sent or the bytes whose base64 text the client sent,
\* whatever the file held before; and a file no request touched does not
\* exist.
C3_LastUploadStored ==
    \A f \in Filenames :
        /\ (AccessesTo(history, f) = <<>>) => ~disk[f].exists
        /\ (/\ AccessesTo(history, f) # <<>>
            /\ AccessesTo(history, f)[Len(AccessesTo(history, f))].op = "written") =>
               disk[f] = [exists |-> TRUE,
                          data |-> SentBytes(
                              req[AccessesTo(history, f)[Len(AccessesTo(history, f))].rid])]

\* "a.txt" was uploaded as multipart bytes, then again through the base64
\* endpoint with other bytes, and holds the latter.
C3_Witness ==
    /\ Len(history) = 2
    /\ history[1].filename = "a.txt" /\ history[1].op = "written"
    /\ history[2].filename = "a.txt" /\ history[2].op = "written"
    /\ req[history[1].rid].url = "/document/upload"
    /\ req[history[2].rid].url = Base64Url
    /\ SentBytes(req[history[1].rid]) # SentBytes(req[history[2].rid])
    /\ disk["a.txt"].data = BytesZF

(***************************************************************************)
(* The claims decoder and the health check.                                *)
(***************************************************************************)
\* The principal a well-formed header encodes, and the mapping typ -> val of
\* its claims (the last claim of a type is the one kept), as a set of pairs.
PrincipalOf(h) == CHOOSE x \in Principals : EncodedPrincipal(x) = h
ClaimPairs(claims) ==
    { <<claims[i].items[1].items[1], claims[i].items[2].items[1]>> :
        i \in { j \in 1..Len(claims) :
                  \A k \in (j + 1)..Len(claims) :
                      claims[k].items[1].items[1] # claims[j].items[1].items[1] } }
DictPairs(d) == { <<d[i].k, d[i].v>> : i \in 1..Len(d) }

IsWellFormed(header) == header.present /\ header.value \in WellFormedHeaders

\* C4: get_user_from_request never raises; it returns the mapping typ -> val
\* for a well-formed header and the empty mapping for every other header
\* (absent, empty, malformed, truncated, non-base64, of the wrong shape).
C4_FailSoftDecoding ==
    \A r \in DOMAIN pc :
        (Ran(r) /\ req[r].url = "/health") =>
            /\ get_user_from_request(req[r].header).ok
            /\ IF IsWellFormed(req[r].header)
               THEN DictPairs(get_user_from_request(req[r].header).value)
                      = ClaimPairs(PrincipalOf(req[r].header.value).items[1].items[1].items)
               ELSE get_user_from_request(req[r].header).value = <<>>

\* A header that holds "!", which is no base64 character, was decoded to a
\* mapping with a claim in it.
C4_Witness ==
    /\ pc[1] = "done"
    /\ req[1].url = "/health"
    /\ req[1].header.present
    /\ \E i \in 1..Len(req[1].header.value) : req[1].header.value[i] = 33
    /\ get_user_from_request(req[1].header).value # <<>>

\* The text of "ok - user: " followed by email.
OkUserText(email) == <<111, 107, 32, 45, 32, 117, 115, 101, 114, 58, 32>> \o email
UnknownText == <<117, 110, 107, 110, 111, 119, 110>>

\* C5: GET /health answers 200 for every header, with status "ok - user: "
\* followed by the email-address claim of the decoded mapping, or by
\* "unknown" when the mapping has none; an absent header gives "unknown" and
\* a well-formed one the last email-address claim of its principal.
C5_HealthNeverFails ==
    \A r \in DOMAIN pc :
        (Ran(r) /\ req[r].url = "/health") =>
            /\ ~resp[r].raised
            /\ resp[r].status_code = 200
            /\ resp[r].body =
                 [status |-> OkUserText(
                     IF DictHas(get_user_from_request(req[r].header).value,
                                JStr(EmailClaimType))
                     THEN DictGet(get_user_from_request(req[r].header).value,
                                  JStr(EmailClaimType), JNull).s
                     ELSE UnknownText)]
            /\ ~req[r].header.present => resp[r].body.status = OkUserText(UnknownText)
            /\ IsWellFormed(req[r].header) =>
                 \/ /\ \A p \in ClaimPairs(PrincipalOf(req[r].header.value).items[1].items[1].items) :
                           p[1] # JStr(EmailClaimType)
                    /\ resp[r].body.status = OkUserText(UnknownText)
                 \/ \E p \in ClaimPairs(PrincipalOf(req[r].header.value).items[1].items[1].items) :
                        /\ p[1] = JStr(EmailClaimType)
                        /\ resp[r].body.status = OkUserText(p[2].s)

\* A header that is no principal was answered "ok - user: unknown".
C5_Witness ==
    /\ pc[1] = "done"
    /\ req[1].url = "/health"
    /\ req[1].header.present
    /\ req[1].header.value # <<>>
    /\ ~IsWellFormed(req[1].header)
    /\ get_user_from_request(req[1].header).logs # <<>>
    /\ resp[1].status_code = 200
    /\ resp[1].body.status = OkUserText(UnknownText)

(***************************************************************************)
(* The base64 endpoint.                                                    *)
(***************************************************************************)
\* Well-formed base64 (RFC 4648): groups of four characters of the alphabet,
\* the last group ending in at most two "=".
IsBase64(s) ==
    /\ Len(s) % 4 = 0
    /\ \E pads \in 0..2 :
          /\ pads <= Len(s)
          /\ \A i \in 1..Len(s) :
                IF i > Len(s) - pads THEN s[i] = 61 ELSE B64IsData(s[i])

\* C6: a fileData that is not well-formed base64 is answered 500 by the
\* base64 endpoint, never with a success body.
C6_MalformedBase64Rejected ==
    \A r \in DOMAIN pc :
        (Ran(r) /\ req[r].url = Base64Url /\ ~IsBase64(req[r].fileData)) =>
            /\ resp[r].status_code = 500
            /\ DOMAIN resp[r].body = {"detail"}

\* fileData "!!!!" was answered 200 with status "uploaded", and stored as an
\* empty file.
C6_Witness ==
    /\ pc[1] = "done"
    /\ req[1].url = Base64Url
    /\ req[1].fileData = <<33, 33, 33, 33>>
    /\ resp[1].status_code = 200
    /\ resp[1].body.fileUpload.status = <<117, 112, 108, 111, 97, 100, 101, 100>>
    /\ disk[req[1].filename] = [exists |-> TRUE, data |-> <<>>]

\* The detail of a response that refuses a blank message: the handler's own,
\* and str(e) of the handler's exception in the base64 endpoint.
MessageRefusals ==
    {"Message cannot be empty.", "500: Message cannot be empty.", ""}

\* C7: a combined endpoint answers 200, with messageResponse and fileUpload,
\* only when its file was written and its message is not blank; the message
\* is refused only after the file was written; and when the file was written
\* and the message is blank the answer is 500 with that refusal, and the
\* file stays stored with the bytes sent.
C7_FileThenMessage ==
    \A r \in DOMAIN pc :
        (Ran(r) /\ req[r].url \in CombinedUrls) =>
            /\ (resp[r].status_code = 200) =>
                   (/\ Wrote(r)
                    /\ ~IsBlank(req[r].message)
                    /\ DOMAIN resp[r].body = {"messageResponse", "fileUpload"})
            /\ (resp[r].status_code # 200) =>
                   (/\ resp[r].status_code = 500
                    /\ DOMAIN resp[r].body = {"detail"})
            /\ (/\ resp[r].status_code = 500
                /\ resp[r].body.detail \in MessageRefusals) =>
                   (Wrote(r) /\ IsBlank(req[r].message))
            /\ (Wrote(r) /\ IsBlank(req[r].message)) =>
                   (/\ resp[r].status_code = 500
                    /\ resp[r].body.detail \in MessageRefusals
                    /\ disk[Target(req[r])].exists
                    /\ HasSentBytes(req[r]) =>
                           disk[Target(req[r])].data = SentBytes(req[r]))

\* POST /message/with-file with a blank message was answered 500 and its
\* two bytes are stored.
C7_Witness ==
    /\ pc[1] = "done"
    /\ req[1].url = WithFileUrl
    /\ IsBlank(req[1].message)
    /\ resp[1].status_code = 500
    /\ Len(req[1].file.content) = 2
    /\ disk[req[1].file.filename] = [exists |-> TRUE, data |-> req[1].file.content]

(***************************************************************************)
(* Uploads in flight together.                                             *)
(***************************************************************************)
\* The step in which the endpoint of request r runs.
EndpointStep(r) == pc[r] = "call_next" /\ pc'[r] = "returned"

\* C8: the endpoint of an upload changes no file but the one it names; when
\* it writes, the file then holds exactly its bytes; and a file whose last
\* access was a write holds the bytes of one of the requests that wrote it.
C8_ConcurrentWrites ==
    [][\A r \in 1..NumRequests :
          EndpointStep(r) =>
              /\ \A g \in Filenames \ {Target(req[r])} : disk'[g] = disk[g]
              /\ (/\ Len(history') > Len(history)
                  /\ history'[Len(history')].op = "written") =>
                     disk'[Target(req[r])] =
                         [exists |-> TRUE, data |-> SentBytes(req[r])]
              /\ \A f \in Filenames :
                    (/\ AccessesTo(history', f) # <<>>
                     /\ AccessesTo(history', f)[Len(AccessesTo(history', f))].op = "written") =>
                        disk'[f].data \in { SentBytes(req[w]) : w \in WritersIn(history', f) }
      ]_vars

\* Two requests were received before either endpoint ran, both wrote
\* "a.txt" with different bytes, and the file holds the bytes of the second
\* writer; a third file was not touched.
C8_Witness ==
    /\ \A r \in DOMAIN pc : pc[r] = "done"
    /\ Len(log) >= 2 /\ log[1].rid # log[2].rid
    /\ Len(history) = 2
    /\ history[1].rid # history[2].rid
    /\ \A i \in 1..2 : history[i].filename = "a.txt" /\ history[i].op = "written"
    /\ SentBytes(req[history[1].rid]) # SentBytes(req[history[2].rid])
    /\ disk["a.txt"].data = SentBytes(req[history[2].rid])
    /\ ~disk["b.txt"].exists

\* C9: the endpoint of a base64 request whose fileData does not decode
\* leaves every file as it was.
C9_FailedDecodeLeavesStore ==
    [][\A r \in 1..NumRequests :
          (/\ EndpointStep(r)
           /\ req[r].url = Base64Url
           /\ ~b64decode(req[r].fileData).ok) =>
              disk' = disk
      ]_vars

\* "a.txt" was uploaded, and a base64 request whose fileData does not
\* decode has left it empty.
C9_Witness ==
    /\ Len(history) = 2
    /\ history[1].filename = "a.txt" /\ history[1].op = "written"
    /\ SentBytes(req[history[1].rid]) # <<>>
    /\ history[2].filename = "a.txt" /\ history[2].op = "truncated"
    /\ ~b64decode(req[history[2].rid].fileData).ok
    /\ resp[history[2].rid].status_code = 500
    /\ disk["a.txt"] = [exists |-> TRUE, data |-> <<>>]

(***************************************************************************)
(* The logging middleware.                                                 *)
(***************************************************************************)
LogOf(r) == SelectSeq(log, LAMBDA e : e.rid = r)

\* C10: the first record of a request is that of its method, URL and body,
\* and until it is there the endpoint has done nothing; a request that is
\* done got a response of status 200 or 500, never an exception, and its
\* last record is that of the status.
C10_RequestsLogged ==
    \A r \in DOMAIN pc :
        /\ (pc[r] = "idle") => (LogOf(r) = <<>> /\ ~Touched(r) /\ resp[r] = NoResponse)
        /\ (pc[r] # "idle") =>
               (/\ LogOf(r) # <<>>
                /\ LogOf(r)[1] = [rid |-> r, level |-> "INFO",
                                  event |-> "Incoming request",
                                  method |-> req[r].method, url |-> req[r].url,
                                  body |-> req[r]])
        /\ (pc[r] = "call_next") =>
               (Len(LogOf(r)) = 1 /\ ~Touched(r) /\ resp[r] = NoResponse)
        /\ Ran(r) => (~resp[r].raised /\ resp[r].status_code \in {200, 500})
        /\ (pc[r] = "done") =>
               LogOf(r)[Len(LogOf(r))] =
                   [rid |-> r, level |-> "INFO", event |-> "Response status",
                    status_code |-> resp[r].status_code]

\* A request was answered 500: its records are the request, the error of
\* the endpoint and the status.
C10_Witness ==
    /\ pc[1] = "done"
    /\ resp[1].status_code = 500
    /\ Len(log) = 3
    /\ log[1].event = "Incoming request"
    /\ log[2].level = "ERROR"
    /\ log[3] = [rid |-> 1, level |-> "INFO", event |-> "Response status",
                 status_code |-> 500]
====
